---------------------------- MODULE Spec2Model ----------------------------
(***************************************************************************)
(* Salesforce login with session-cookie persistence (salesforce-login.js). *)
(* One run of main() is modelled as a state machine: credentials, browser  *)
(* launch, saved-session probe, the three fill passes, the challenge probe *)
(* and the persist step.  Strings are sequences of one-character strings   *)
(* so that trim, includes and the URL patterns are computed, not assumed.  *)
(***************************************************************************)
EXTENDS Integers, Sequences, FiniteSets, TLC

(***************************************************************************)
(* Bounds of the model.                                                    *)
(***************************************************************************)
\* longest cookie list drawn for the session file
MaxCookies == 2
\* most iterations of the pass-1 poll loop before its 35 s are over
MaxPoll == 2
\* most iterations of one waitAndFillFrame loop before maxWaitMs is over
MaxTries == 2

(***************************************************************************)
(* Strings.                                                                *)
(***************************************************************************)
WhiteSpace == {" ", "\t", "\n"}

\* String.prototype.includes
Includes(s, sub) ==
  \E i \in 0..(Len(s) - Len(sub)) : SubSeq(s, i + 1, i + Len(sub)) = sub

RECURSIVE TrimStart(_)
TrimStart(s) ==
  IF s # <<>> /\ Head(s) \in WhiteSpace THEN TrimStart(Tail(s)) ELSE s

RECURSIVE TrimEnd(_)
TrimEnd(s) ==
  IF s # <<>> /\ s[Len(s)] \in WhiteSpace
    THEN TrimEnd(SubSeq(s, 1, Len(s) - 1))
    ELSE s

\* String.prototype.trim
Trim(s) == TrimEnd(TrimStart(s))

UpperCase == <<"A","B","C","D","E","F","G","H","I","J","K","L","M",
               "N","O","P","Q","R","S","T","U","V","W","X","Y","Z">>
LowerCase == <<"a","b","c","d","e","f","g","h","i","j","k","l","m",
               "n","o","p","q","r","s","t","u","v","w","x","y","z">>
Digits == {"0","1","2","3","4","5","6","7","8","9"}

LowerChar(c) ==
  IF \E i \in 1..26 : UpperCase[i] = c
    THEN LowerCase[CHOOSE i \in 1..26 : UpperCase[i] = c]
    ELSE c

\* the text as a case-insensitive pattern (flag i) sees it
ToLower(s) == [i \in 1..Len(s) |-> LowerChar(s[i])]

IsAlnumLower(c) == c \in Digits \/ \E i \in 1..26 : LowerCase[i] = c

(***************************************************************************)
(* JSON values as JSON.parse returns them: [t |-> type, v |-> payload].    *)
(* A property that an object does not have reads as undefined.             *)
(***************************************************************************)
JUndef == [t |-> "undefined", v |-> 0]
JNull == [t |-> "null", v |-> 0]
JNum(n) == [t |-> "number", v |-> n]
JBool(b) == [t |-> "boolean", v |-> b]
JStr(s) == [t |-> "string", v |-> s]
JArr(a) == [t |-> "array", v |-> a]
\* a cookie entry that is an object; d is its domain member (JUndef: none)
JCookie(d) == [t |-> "cookie", v |-> d]
\* a top-level object; c is its cookies member (JUndef: none)
JState(c) == [t |-> "state", v |-> c]

\* ToBoolean, as || and && apply it
Truthy(j) ==
  CASE j.t \in {"undefined", "null"} -> FALSE
    [] j.t = "number" -> j.v # 0
    [] j.t = "boolean" -> j.v
    [] j.t = "string" -> j.v # <<>>
    [] OTHER -> TRUE

\* reading a property of null or undefined throws a TypeError
ThrowsOnRead(j) == j.t \in {"undefined", "null"}

\* data.cookies
CookiesOf(data) == IF data.t = "state" THEN data.v ELSE JUndef

\* c.domain
DomainOf(c) == IF c.t = "cookie" THEN c.v ELSE JUndef

LIGHTNING_DOMAIN == <<"l","i","g","h","t","n","i","n","g",".","f","o","r","c","e",".","c","o","m">>
HTTPS == <<"h","t","t","p","s",":","/","/">>

\* no derived endpoint (null); an endpoint u is <<u>>
NoUrl == <<>>
SomeUrl(u) == <<u>>

EmptyArtifact == [cookies |-> <<>>, lightningBaseUrl |-> NoUrl]

\* the outcome of a block of code: a value returned or an error thrown
Returned(x) == [threw |-> FALSE, value |-> x]
Thrown == [threw |-> TRUE, value |-> EmptyArtifact]

\* the predicate of cookies.find, applied to one entry:
\* c.domain && c.domain.includes('lightning.force.com')
\* "throw" | "match" | "skip"
FindPredicate(c) ==
  IF ThrowsOnRead(c) THEN "throw"
  ELSE IF ~Truthy(DomainOf(c)) THEN "skip"
  ELSE IF DomainOf(c).t # "string" THEN "throw"
  ELSE IF Includes(DomainOf(c).v, LIGHTNING_DOMAIN) THEN "match"
  ELSE "skip"

\* mutant: the scan keeps the last entry that matches
FindLightningLast(cookies, i) ==
  IF \E j \in i..Len(cookies) : FindPredicate(cookies[j]) = "throw" THEN -1
  ELSE IF \E j \in i..Len(cookies) : FindPredicate(cookies[j]) = "match"
    THEN CHOOSE j \in i..Len(cookies) :
           /\ FindPredicate(cookies[j]) = "match"
           /\ \A k \in (j + 1)..Len(cookies) : FindPredicate(cookies[k]) # "match"
    ELSE 0

\* Array.prototype.find from position i: 0 when nothing matches, -1 when the
\* predicate throws before a match, else the position of the first match
RECURSIVE FindLightning(_, _)
FindLightning(cookies, i) ==
  IF i > Len(cookies) THEN 0
  ELSE CASE FindPredicate(cookies[i]) = "throw" -> -1
         [] FindPredicate(cookies[i]) = "match" -> i
         [] OTHER -> FindLightning(cookies, i + 1)

\* the try block of loadStateFile (lines 23-28); file is what is on disk:
\* [exists, json (the text parses), data (what JSON.parse returns)]
loadStateFileBody(file) ==
  IF ~file.exists THEN Thrown
  ELSE IF ~file.json THEN Thrown
  ELSE IF ThrowsOnRead(file.data) THEN Thrown
  ELSE LET c0 == CookiesOf(file.data)
           cookies == IF Truthy(c0) THEN c0 ELSE JArr(<<>>)
       IN IF cookies.t # "array" THEN Thrown
          ELSE LET k == FindLightning(cookies.v, 1)
               IN IF k = -1 THEN Thrown
                  ELSE Returned([cookies |-> cookies.v,
                                 lightningBaseUrl |->
                                   IF k > 0
                                     THEN SomeUrl(HTTPS \o DomainOf(cookies.v[k]).v)
                                     ELSE NoUrl])

\* mutant: the catch clause is missing
loadStateFileNoCatch(file) == loadStateFileBody(file)

\* loadStateFile(statePath): the try block, and the catch that returns the
\* empty artifact
loadStateFile(file) ==
  IF loadStateFileBody(file).threw
    THEN Returned(EmptyArtifact)
    ELSE loadStateFileBody(file)

(***************************************************************************)
(* URLs and their classification.                                          *)
(***************************************************************************)
SALESFORCE_URL == <<"h","t","t","p","s",":","/","/","t","e","s","t",".","s","a","l","e","s","f","o","r","c","e",".","c","o","m","/">>
SALESFORCE_HOME_URL == <<"h","t","t","p","s",":","/","/","t","e","s","t",".","s","a","l","e","s","f","o","r","c","e",".","c","o","m","/","l","i","g","h","t","n","i","n","g","/","p","a","g","e","/","h","o","m","e">>
HOME_PATH == <<"/","l","i","g","h","t","n","i","n","g","/","p","a","g","e","/","h","o","m","e">>
ABOUT_BLANK == <<"a","b","o","u","t",":","b","l","a","n","k">>

\* lines 133 and 143
IsLoggedInStrict(currentUrl) ==
  /\ ~Includes(currentUrl, <<"l","o","g","i","n">>)
  /\ \/ Includes(currentUrl, <<"l","i","g","h","t","n","i","n","g">>)
     \/ Includes(currentUrl, <<"m","y",".","s","a","l","e","s","f","o","r","c","e",".","c","o","m">>)

\* salesforce\.com\/[a-z0-9]{15} under flag i
HasRecordIdPath(lower) ==
  LET pre == <<"s","a","l","e","s","f","o","r","c","e",".","c","o","m","/">>
  IN \E i \in 0..(Len(lower) - Len(pre) - 15) :
       /\ SubSeq(lower, i + 1, i + Len(pre)) = pre
       /\ \A j \in 1..15 : IsAlnumLower(lower[i + Len(pre) + j])

\* the pattern of line 155
MatchesLoggedInPattern(currentUrl) ==
  LET lower == ToLower(currentUrl)
  IN \/ Includes(lower, <<"l","i","g","h","t","n","i","n","g">>)
     \/ Includes(lower, <<"h","o","m","e",".","j","s","p">>)
     \/ Includes(lower, <<".","c","o","m","/","h","o","m","e">>)
     \/ Includes(lower, <<"s","e","t","u","p">>)
     \/ Includes(lower, <<"s","e","c","u","r","/","f","r","o","n","t","d","o","o","r">>)
     \/ HasRecordIdPath(lower)

\* lines 155-156
IsLoggedInBroad(currentUrl) ==
  \/ MatchesLoggedInPattern(currentUrl)
  \/ /\ Includes(currentUrl, <<"s","a","l","e","s","f","o","r","c","e",".","c","o","m">>)
     /\ ~Includes(currentUrl, <<"/","l","o","g","i","n">>)
     /\ currentUrl # SALESFORCE_URL

\* where a navigation can end up
URL_DASHBOARD == <<"h","t","t","p","s",":","/","/","a",".","l","i","g","h","t","n","i","n","g",".","f","o","r","c","e",".","c","o","m","/","l","i","g","h","t","n","i","n","g","/","p","a","g","e","/","h","o","m","e">>
URL_LOGIN_RETURN == <<"h","t","t","p","s",":","/","/","t","e","s","t",".","s","a","l","e","s","f","o","r","c","e",".","c","o","m","/","l","o","g","i","n","?","s","t","a","r","t","U","R","L","=","/","l","i","g","h","t","n","i","n","g">>
URL_CLASSIC == <<"h","t","t","p","s",":","/","/","a",".","m","y",".","s","a","l","e","s","f","o","r","c","e",".","c","o","m","/","h","o","m","e","/","h","o","m","e",".","j","s","p">>
LandingUrls == {URL_DASHBOARD, SALESFORCE_URL, URL_LOGIN_RETURN, URL_CLASSIC}

(***************************************************************************)
(* Documents and frames.                                                   *)
(***************************************************************************)
\* a document: u, p: it has a username-like / password-like input;
\* btns: which of input#Login (1), input[name="Login"] (2),
\* button[type="submit"] (3), input[type="submit"] (4) exist;
\* forms: which of form#login_form (1), form[name="login"] (2),
\* the form enclosing the username field (3) exist
Doc(u, p, btns, forms) == [u |-> u, p |-> p, btns |-> btns, forms |-> forms]
EmptyDoc == Doc(FALSE, FALSE, {}, {})
UserOnlyDoc == Doc(TRUE, FALSE, {3}, {3})
LoginDoc == Doc(TRUE, TRUE, {1, 3}, {1, 3})
FormOnlyDoc == Doc(TRUE, TRUE, {}, {3})
BareDoc == Doc(TRUE, TRUE, {}, {})

\* mutant: the last selector that finds an element wins
Max(S) == CHOOSE x \in S : \A y \in S : x >= y

Min(S) == CHOOSE x \in S : \A y \in S : x <= y

\* one operation on a document: op on target (k: which of the selectors
\* found it), val the value assigned (<<>> when none is)
DomOp(op, target, k, val) == [op |-> op, target |-> target, k |-> k, val |-> val]

\* mutant: the password is assigned without its notifications
SetFieldsSilent(user, pass) ==
  << DomOp("focus", "u", 0, <<>>), DomOp("value", "u", 0, user),
     DomOp("input", "u", 0, <<>>), DomOp("change", "u", 0, <<>>),
     DomOp("focus", "p", 0, <<>>), DomOp("value", "p", 0, pass) >>

\* lines 173-180: both fields are focused, set and notified
SetFields(user, pass) ==
  << DomOp("focus", "u", 0, <<>>), DomOp("value", "u", 0, user),
     DomOp("input", "u", 0, <<>>), DomOp("change", "u", 0, <<>>),
     DomOp("focus", "p", 0, <<>>), DomOp("value", "p", 0, pass),
     DomOp("input", "p", 0, <<>>), DomOp("change", "p", 0, <<>>) >>

\* mutant: the username is set before the password field is looked for
fillLoginInFrameEager(doc, user, pass) ==
  IF ~doc.u
    THEN [done |-> FALSE, message |-> "no username field", ops |-> <<>>]
    ELSE IF ~doc.p
      THEN [done |-> FALSE, message |-> "no password field",
            ops |-> SubSeq(SetFields(user, pass), 1, 4)]
      ELSE IF doc.btns # {}
        THEN [done |-> TRUE, message |-> "submitted",
              ops |-> Append(SetFields(user, pass),
                             DomOp("click", "btn", Min(doc.btns), <<>>))]
        ELSE IF doc.forms # {}
          THEN [done |-> TRUE, message |-> "form submitted",
                ops |-> Append(SetFields(user, pass),
                               DomOp("submit", "form", Min(doc.forms), <<>>))]
          ELSE [done |-> TRUE, message |-> "filled, no button",
                ops |-> SetFields(user, pass)]

\* the function fillLoginInFrame evaluates inside a frame (lines 168-192):
\* the result and the operations it performs on the document, in order
fillLoginInFrame(doc, user, pass) ==
  IF ~doc.u \/ ~doc.p
    THEN [done |-> FALSE,
          message |-> IF ~doc.u THEN "no username field" ELSE "no password field",
          ops |-> <<>>]
    ELSE IF doc.btns # {}
      THEN [done |-> TRUE, message |-> "submitted",
            ops |-> Append(SetFields(user, pass),
                           DomOp("click", "btn", Min(doc.btns), <<>>))]
      ELSE IF doc.forms # {}
        THEN [done |-> TRUE, message |-> "form submitted",
              ops |-> Append(SetFields(user, pass),
                             DomOp("submit", "form", Min(doc.forms), <<>>))]
        ELSE [done |-> TRUE, message |-> "filled, no button",
              ops |-> SetFields(user, pass)]

IsSubmission(o) == o.op \in {"click", "submit"}

(***************************************************************************)
(* The state of one run.                                                   *)
(***************************************************************************)
VARIABLES
  pc,             \* where main() is; "exited": the process has ended
  env,            \* process.env: the two credential variables (<<>>: not set)
  HEADED,         \* --headed
  DEBUG,          \* --debug
  username,       \* line 56
  password,       \* line 57
  stateFile,      \* STATE_FILE on disk
  dirsExist,      \* AUTH_DIR and BROWSER_PROFILE_DIR exist
  mkdirs,         \* directories created by mkdirSync
  fileReads,      \* reads of STATE_FILE
  fileWrites,     \* writes of STATE_FILE
  hasSavedState,  \* line 75
  savedStateData, \* line 77: <<>> is null
  launched,       \* the calls of launchPersistentContext, in order
  context,        \* "none" | "open" | "closed"
  closeCount,     \* calls of context.close()
  jar,            \* the cookies of the browser context
  page,           \* "none" | "open"
  pageUrl,        \* page.url()
  navLog,         \* the page.goto calls, in order
  isLoggedInUrl,  \* line 123
  loginFilled,    \* line 122
  loginPage,      \* the frames of the login page as the site serves it
  frames,         \* page.frames(): frame 1 is the main frame
  envLeft,        \* changes the page may still make by itself
  pollCount,      \* iterations of the pass-1 loop so far
  call,           \* the waitAndFillFrame call in progress
  p3len,          \* pass 3: length of the snapshot of page.frames()
  p3idx,          \* pass 3: position in the snapshot
  attempts,       \* the frame.evaluate calls made: pass, frame, outcome
  domLog,         \* the operations performed on documents, in order
  challenge,      \* the waits after the fill and the save, in order
  enters,         \* lines read from stdin by waitForEnter
  console,        \* the messages console.log / console.error printed
  exitCode        \* process.exitCode

cfgVars == <<env, HEADED, DEBUG, loginPage>>
credVars == <<username, password>>
fsVars == <<stateFile, dirsExist, mkdirs, fileReads, fileWrites>>
sessVars == <<hasSavedState, savedStateData>>
browserVars == <<launched, context, closeCount, jar>>
pageVars == <<page, pageUrl, navLog>>
flagVars == <<isLoggedInUrl, loginFilled>>
fillVars == <<frames, envLeft, pollCount, call, p3len, p3idx, attempts, domLog>>
tailVars == <<challenge, enters>>
outVars == <<console, exitCode>>

vars == <<pc, cfgVars, credVars, fsVars, sessVars, browserVars, pageVars,
          flagVars, fillVars, tailVars, outVars>>

(***************************************************************************)
(* Console output.  An argument is a literal text, or a runtime value.     *)
(***************************************************************************)
T(s) == [k |-> "text", v |-> s]
V(s) == [k |-> "value", v |-> s]
N(n) == [k |-> "number", v |-> n]
B(b) == [k |-> "boolean", v |-> b]

\* console.log(...args)
Say(c, args) == c \cup {[stream |-> "stdout", args |-> args]}
\* console.error(...args)
Complain(c, args) == c \cup {[stream |-> "stderr", args |-> args]}
\* log(...args), line 52
Log(c, args) ==
  IF DEBUG THEN Say(c, <<T("[debug]")>> \o args) ELSE c

\* an error leaves main(): the promise main() returned is rejected, nothing
\* handles it, and the process ends with exit code 1
UnhandledRejection ==
  /\ pc' = "exited"
  /\ exitCode' = 1
  /\ console' = Complain(console, <<T("Error")>>)

(***************************************************************************)
(* What the run starts from.                                               *)
(***************************************************************************)
EnvValues == { <<>>, << <<>> >>, << <<" ">> >> }
EnvUsers == EnvValues \cup { << <<" ","u","@","x"," ">> >> }
EnvPasswords == EnvValues \cup { << <<"\t","p","w","1">> >> }

COOKIE_LIGHTNING == JCookie(JStr(<<"a",".","l","i","g","h","t","n","i","n","g",".","f","o","r","c","e",".","c","o","m">>))
COOKIE_OTHER == JCookie(JStr(<<"t","e","s","t",".","s","a","l","e","s","f","o","r","c","e",".","c","o","m">>))
COOKIE_SID == JCookie(JStr(<<"b",".","l","i","g","h","t","n","i","n","g",".","f","o","r","c","e",".","c","o","m">>))

NoFile == [exists |-> FALSE, json |-> FALSE, data |-> JNull]
BadFile == [exists |-> TRUE, json |-> FALSE, data |-> JNull]
JsonFile(data) == [exists |-> TRUE, json |-> TRUE, data |-> data]
\* what context.storageState({ path }) writes
StorageState(cookies) == JsonFile(JState(JArr(cookies)))

RunFiles ==
  { NoFile, BadFile,
    StorageState(<<>>),
    StorageState(<<COOKIE_OTHER>>),
    StorageState(<<COOKIE_OTHER, COOKIE_LIGHTNING>>),
    StorageState(<<COOKIE_LIGHTNING, JNull>>) }

NoCall == [frame |-> 0, caller |-> 0, tries |-> 0, done |-> FALSE, message |-> ""]

\* nothing has happened yet
InitRun ==
  /\ username = <<>> /\ password = <<>>
  /\ mkdirs = 0 /\ fileReads = 0 /\ fileWrites = 0
  /\ hasSavedState = FALSE /\ savedStateData = <<>>
  /\ launched = <<>> /\ context = "none" /\ closeCount = 0 /\ jar = <<>>
  /\ page = "none" /\ pageUrl = ABOUT_BLANK /\ navLog = <<>>
  /\ isLoggedInUrl = FALSE /\ loginFilled = FALSE
  /\ frames = <<>> /\ pollCount = 0 /\ call = NoCall
  /\ p3len = 0 /\ p3idx = 0 /\ attempts = {} /\ domLog = <<>>
  /\ challenge = <<>> /\ enters = 0
  /\ console = {} /\ exitCode = 0

(***************************************************************************)
(* Credentials, directories, browser launch (lines 55-108).                *)
(***************************************************************************)
\* process.env.X || ''
OrEmpty(x) == IF x = <<>> THEN <<>> ELSE x[1]

\* mutant: the run stops only when both values are missing
CredentialsMissingBoth(user, pass) == user = <<>> /\ pass = <<>>

\* line 59
CredentialsMissing(user, pass) == user = <<>> \/ pass = <<>>

\* lines 56-64
ReadCredentials ==
  /\ pc = "start"
  /\ username' = Trim(OrEmpty(env.sfUsername))
  /\ password' = Trim(OrEmpty(env.sfPassword))
  /\ IF CredentialsMissing(username', password')
       THEN /\ console' = Complain(Complain(console,
                 <<T("Set SF_USERNAME and SF_PASSWORD in .env (in the project root).")>>),
                 <<T("Current .env lookup: project root ="), T("projectRoot")>>)
            /\ exitCode' = 1
            /\ pc' = "exited"
       ELSE /\ console' = Say(console,
                 <<T("Using credentials from .env (username length:"),
                   N(Len(username')), T(")")>>)
            /\ exitCode' = exitCode
            /\ pc' = "dirs"
  /\ UNCHANGED <<cfgVars, fsVars, sessVars, browserVars, pageVars, flagVars,
                 fillVars, tailVars>>

\* lines 66-75
EnsureDirs ==
  /\ pc = "dirs"
  /\ mkdirs' = IF dirsExist THEN mkdirs ELSE mkdirs + 2
  /\ dirsExist' = TRUE
  /\ hasSavedState' = stateFile.exists
  /\ pc' = "launch"
  /\ UNCHANGED <<cfgVars, credVars, stateFile, fileReads, fileWrites,
                 savedStateData, browserVars, pageVars, flagVars, fillVars,
                 tailVars, outVars>>

Channels == <<"chrome", "msedge">>
BUNDLED == "chromium"

\* one call of chromium.launchPersistentContext and whether it resolved
Launch(engine, ok) == [engine |-> engine, ok |-> ok]

\* mutant: no break after a channel has launched
LaunchChannelNoBreak ==
  /\ pc = "launch"
  /\ LET channel == Channels[Len(launched) + 1]
     IN \E ok \in BOOLEAN :
          /\ launched' = Append(launched, Launch(channel, ok))
          /\ context' = IF ok THEN "open" ELSE context
          /\ console' = IF ok
                          THEN Log(console, <<T("Using browser channel:"), T(channel)>>)
                          ELSE console
          /\ pc' = IF Len(launched') = Len(Channels)
                     THEN (IF context' = "open" THEN "load" ELSE "bundled")
                     ELSE "launch"
  /\ UNCHANGED <<cfgVars, credVars, fsVars, sessVars, closeCount, jar,
                 pageVars, flagVars, fillVars, tailVars, exitCode>>

\* lines 93-104: one iteration of the loop over the channels
LaunchChannel ==
  /\ pc = "launch"
  /\ LET channel == Channels[Len(launched) + 1]
     IN \E ok \in BOOLEAN :
          /\ launched' = Append(launched, Launch(channel, ok))
          /\ IF ok
               THEN /\ context' = "open"
                    /\ console' = Log(console, <<T("Using browser channel:"), T(channel)>>)
                    /\ pc' = "load"
               ELSE /\ context' = context
                    /\ console' = console
                    /\ pc' = IF Len(launched') = Len(Channels)
                               THEN "bundled" ELSE "launch"
  /\ UNCHANGED <<cfgVars, credVars, fsVars, sessVars, closeCount, jar,
                 pageVars, flagVars, fillVars, tailVars, exitCode>>

\* lines 105-108: no channel has launched, the bundled Chromium is tried; its
\* failure is not caught
LaunchBundled ==
  /\ pc = "bundled"
  /\ \E ok \in BOOLEAN :
       /\ launched' = Append(launched, Launch(BUNDLED, ok))
       /\ IF ok
            THEN /\ context' = "open"
                 /\ console' = Log(console, <<T("Using browser: bundled Chromium")>>)
                 /\ pc' = "load"
                 /\ exitCode' = exitCode
            ELSE /\ context' = context
                 /\ UnhandledRejection
  /\ UNCHANGED <<cfgVars, credVars, fsVars, sessVars, closeCount, jar,
                 pageVars, flagVars, fillVars, tailVars>>

(***************************************************************************)
(* Saved session, page, session probe (lines 110-162).                     *)
(***************************************************************************)
\* context.addCookies rejects a list with an entry that is not a cookie
AddCookiesAccepts(cookies) ==
  \A i \in 1..Len(cookies) : cookies[i].t = "cookie"

\* lines 110-116
LoadSavedState ==
  /\ pc = "load"
  /\ IF hasSavedState
       THEN LET r == loadStateFile(stateFile)
            IN /\ fileReads' = fileReads + 1
               /\ IF r.threw
                    THEN /\ UnhandledRejection
                         /\ UNCHANGED <<savedStateData, jar>>
                    ELSE /\ savedStateData' = <<r.value>>
                         /\ IF Len(r.value.cookies) > 0
                              THEN \E ok \in BOOLEAN :
                                     IF ok /\ AddCookiesAccepts(r.value.cookies)
                                       THEN /\ jar' = jar \o r.value.cookies
                                            /\ console' = Say(console,
                                                 <<T("Loaded saved session from"), T("STATE_FILE")>>)
                                            /\ pc' = "page"
                                            /\ exitCode' = exitCode
                                       ELSE /\ jar' = jar
                                            /\ UnhandledRejection
                              ELSE /\ pc' = "page"
                                   /\ UNCHANGED <<jar, outVars>>
       ELSE /\ pc' = "page"
            /\ UNCHANGED <<fileReads, savedStateData, jar, outVars>>
  /\ UNCHANGED <<cfgVars, credVars, stateFile, dirsExist, mkdirs, fileWrites,
                 hasSavedState, launched, context, closeCount, pageVars,
                 flagVars, fillVars, tailVars>>

\* line 125
HasDashboardUrl ==
  /\ hasSavedState
  /\ savedStateData # <<>>
  /\ savedStateData[1].lightningBaseUrl # NoUrl

\* lines 118-119, and the branch the try block takes first (lines 125, 138)
GetPage ==
  /\ pc = "page"
  /\ \E how \in {"first", "new", "fails"} :
       IF how = "fails"
         THEN /\ UnhandledRejection
              /\ page' = page
         ELSE /\ page' = "open"
              /\ pc' = IF HasDashboardUrl THEN "probe1"
                       ELSE IF hasSavedState THEN "probe2"
                       ELSE "probe3"
              /\ UNCHANGED outVars
  /\ UNCHANGED <<cfgVars, credVars, fsVars, sessVars, browserVars, pageUrl,
                 navLog, flagVars, fillVars, tailVars>>

\* mutant: a saved session that did not authenticate leads to the fill at once
AfterSavedProbeToFill(loggedIn) == IF loggedIn THEN "after" ELSE "fill"

\* line 149: after stages 1 and 2
AfterSavedProbe(loggedIn) == IF loggedIn THEN "after" ELSE "probe3"

\* mutant: the fill is not guarded by the result of the probe
AfterLoginProbeUnguarded(loggedIn) == "fill"

\* line 164: after stage 3
AfterLoginProbe(loggedIn) == IF loggedIn THEN "after" ELSE "fill"

\* how a page.goto can end: the page is at one of the landing URLs, or the
\* navigation fails (an error or the timeout) and the page stays where it was
NavResults(cur) ==
  { [ok |-> TRUE, url |-> u] : u \in LandingUrls }
    \cup { [ok |-> FALSE, url |-> cur] }

Nav(target, stage, caught, res) ==
  [url |-> target, stage |-> stage, caught |-> caught, ok |-> res.ok]

\* lines 125-137: stage 1, the dashboard of the saved session
ProbeDashboard ==
  /\ pc = "probe1"
  /\ LET dashboardUrl == savedStateData[1].lightningBaseUrl[1] \o HOME_PATH
     IN \E res \in NavResults(pageUrl) :
          /\ navLog' = Append(navLog, Nav(dashboardUrl, 1, TRUE, res))
          /\ pageUrl' = res.url
          /\ isLoggedInUrl' = IsLoggedInStrict(res.url)
          /\ console' =
               LET c1 == Say(console, <<T("Loading saved session and opening dashboard...")>>)
                   c2 == Log(c1, <<T("Dashboard URL from state:"), V(dashboardUrl)>>)
                   c3 == Log(c2, <<T("URL after loading saved state:"), V(res.url),
                                   T("isLoggedInUrl:"), B(isLoggedInUrl')>>)
               IN IF isLoggedInUrl'
                    THEN Say(c3, <<T("Already logged in. Dashboard opened.")>>)
                    ELSE c3
          /\ pc' = AfterSavedProbe(isLoggedInUrl')
  /\ UNCHANGED <<cfgVars, credVars, fsVars, sessVars, browserVars, page,
                 loginFilled, fillVars, tailVars, exitCode>>

\* lines 138-147: stage 2, a state file without a Lightning URL
ProbeGeneric ==
  /\ pc = "probe2"
  /\ \E res \in NavResults(pageUrl) :
       /\ navLog' = Append(navLog, Nav(SALESFORCE_URL, 2, TRUE, res))
       /\ pageUrl' = res.url
       /\ isLoggedInUrl' = IsLoggedInStrict(res.url)
       /\ console' = IF isLoggedInUrl'
                       THEN Say(console, <<T("Already logged in.")>>)
                       ELSE console
       /\ pc' = AfterSavedProbe(isLoggedInUrl')
  /\ UNCHANGED <<cfgVars, credVars, fsVars, sessVars, browserVars, page,
                 loginFilled, fillVars, tailVars, exitCode>>

\* lines 149-162: stage 3, the login page
ProbeLogin ==
  /\ pc = "probe3"
  /\ \E res \in NavResults(pageUrl) :
       IF ~res.ok
         THEN \* line 151 has no catch: the error reaches line 289
              /\ navLog' = Append(navLog, Nav(SALESFORCE_URL, 3, FALSE, res))
              /\ pc' = "catch"
              /\ UNCHANGED <<pageUrl, isLoggedInUrl, console>>
         ELSE /\ isLoggedInUrl' = IsLoggedInBroad(res.url)
              /\ LET c1 == Log(console, <<T("URL after goto:"), V(res.url)>>)
                     c2 == Log(c1, <<T("URL after wait:"), V(res.url),
                                     T("isLoggedInUrl:"), B(isLoggedInUrl')>>)
                 IN IF isLoggedInUrl'
                      THEN \E home \in NavResults(res.url) :
                             /\ navLog' = navLog \o
                                  << Nav(SALESFORCE_URL, 3, FALSE, res),
                                     Nav(SALESFORCE_HOME_URL, 3, TRUE, home) >>
                             /\ pageUrl' = home.url
                             /\ console' = Say(c2, <<T("Already logged in. Opening dashboard...")>>)
                             /\ pc' = AfterLoginProbe(TRUE)
                      ELSE /\ navLog' = Append(navLog, Nav(SALESFORCE_URL, 3, FALSE, res))
                           /\ pageUrl' = res.url
                           /\ console' = c2
                           /\ pc' = AfterLoginProbe(FALSE)
  /\ UNCHANGED <<cfgVars, credVars, fsVars, sessVars, browserVars, page,
                 loginFilled, fillVars, tailVars, exitCode>>

(***************************************************************************)
(* The page while the fill polls it.                                       *)
(***************************************************************************)
\* most frames a page has
MaxFrames == 3
\* most changes a page makes by itself during one run
MaxPageChanges == 1

SESSION_FRAME_URL == <<"h","t","t","p","s",":","/","/","t","e","s","t",".","s","a","l","e","s","f","o","r","c","e",".","c","o","m","/","l","o","g","i","n","/","s","e","s","s","i","o","n","s","e","r","v","e","r","2","1","2",".","h","t","m","l">>
OTHER_FRAME_URL == <<"h","t","t","p","s",":","/","/","c",".","s","a","l","e","s","f","o","r","c","e",".","c","o","m","/","c","o","n","t","e","n","t">>
SESSIONSERVER == <<"s","e","s","s","i","o","n","s","e","r","v","e","r">>

Frame(url, doc) == [url |-> url, doc |-> doc]
RunDocs == {EmptyDoc, UserOnlyDoc, LoginDoc}
ChildFrames == { Frame(u, d) : u \in {SESSION_FRAME_URL, OTHER_FRAME_URL}, d \in RunDocs }

\* the frames of the login page when the fill starts: the main frame alone,
\* or the main frame and child frames
PageLayouts ==
  { <<Frame(SALESFORCE_URL, d)>> : d \in RunDocs }
    \cup { <<Frame(SALESFORCE_URL, EmptyDoc), c>> : c \in ChildFrames }
    \cup { <<Frame(SALESFORCE_URL, EmptyDoc), c1, c2>> : c1 \in ChildFrames, c2 \in ChildFrames }

\* the login pages a whole run is checked against: the form in the main
\* document, in the login iframe, in another frame, or nowhere
RunLayouts ==
  { <<Frame(SALESFORCE_URL, LoginDoc)>>,
    <<Frame(SALESFORCE_URL, EmptyDoc)>>,
    <<Frame(SALESFORCE_URL, EmptyDoc), Frame(SESSION_FRAME_URL, LoginDoc)>>,
    <<Frame(SALESFORCE_URL, EmptyDoc), Frame(OTHER_FRAME_URL, LoginDoc)>> }

\* what the page is after a delay: as before, or (while it may still change)
\* with one more frame, or with the document of one frame replaced
DelayResults(fr, left) ==
  { [frames |-> fr, envLeft |-> left] }
    \cup { [frames |-> Append(fr, c), envLeft |-> left - 1] :
             c \in IF left > 0 /\ Len(fr) < MaxFrames THEN ChildFrames ELSE {} }
    \cup UNION { { [frames |-> [fr EXCEPT ![i].doc = d], envLeft |-> left - 1] :
                      d \in RunDocs \ {fr[i].doc} } :
                    i \in IF left > 0 THEN 1..Len(fr) ELSE {} }

\* whether a loop whose n-th iteration has just ended runs once more: its
\* time may be over after any iteration, and is over after the bound
MoreTime(n, bound) == IF n < bound THEN BOOLEAN ELSE {FALSE}

(***************************************************************************)
(* The three fill passes (lines 164-254).                                  *)
(***************************************************************************)
Attempt(caller, frame, how) == [pass |-> caller, frame |-> frame, how |-> how]
Tagged(frame, ops) == [i \in 1..Len(ops) |-> [frame |-> frame, o |-> ops[i]]]

\* page.frames().find((f) => f.url().includes('sessionserver')), 0: none
SessionFrame(fr) ==
  IF \E i \in 1..Len(fr) : Includes(fr[i].url, SESSIONSERVER)
    THEN Min({ i \in 1..Len(fr) : Includes(fr[i].url, SESSIONSERVER) })
    ELSE 0

Call(frame, caller) ==
  [frame |-> frame, caller |-> caller, tries |-> 0, done |-> FALSE, message |-> ""]

\* lines 213-216
StartFill ==
  /\ pc = "fill"
  /\ console' = Say(console, <<T("Entering credentials in UI: username"), V(username),
                               T("password"), V(password)>>)
  /\ frames' = loginPage
  /\ pollCount' = 0
  /\ pc' = "pass1"
  /\ UNCHANGED <<cfgVars, credVars, fsVars, sessVars, browserVars, pageVars,
                 flagVars, envLeft, call, p3len, p3idx, attempts, domLog,
                 tailVars, exitCode>>

\* lines 217-221 and 228: one iteration of the pass-1 loop up to the call of
\* waitAndFillFrame, or to the end of the iteration when no frame matches
Pass1Poll ==
  /\ pc = "pass1"
  /\ IF SessionFrame(frames) # 0
       THEN /\ console' = Log(console, <<T("Found sessionserver frame, filling via JS...")>>)
            /\ call' = Call(SessionFrame(frames), 1)
            /\ pc' = "waf"
            /\ UNCHANGED <<frames, envLeft, pollCount>>
       ELSE /\ pollCount' = pollCount + 1
            /\ \E d \in DelayResults(frames, envLeft) :
                 frames' = d.frames /\ envLeft' = d.envLeft
            /\ \E more \in MoreTime(pollCount', MaxPoll) :
                 pc' = IF more THEN "pass1" ELSE "pass2"
            /\ UNCHANGED <<call, console>>
  /\ UNCHANGED <<cfgVars, credVars, fsVars, sessVars, browserVars, pageVars,
                 flagVars, p3len, p3idx, attempts, domLog, tailVars, exitCode>>

\* lines 200-209 with 166-195: one iteration of waitAndFillFrame.  The
\* evaluation returns the result of fillLoginInFrame, or throws before the
\* function ran, or throws after it ran because the submission has replaced
\* the document
Evaluate ==
  /\ pc = "waf"
  /\ LET f == call.frame
         r == fillLoginInFrame(frames[f].doc, username, password)
         submits == \E i \in 1..Len(r.ops) : IsSubmission(r.ops[i])
     IN \E how \in {"returns", "throws"} \cup (IF submits THEN {"throwsLate"} ELSE {}) :
          /\ attempts' = attempts \cup {Attempt(call.caller, f, how)}
          /\ domLog' = IF how = "throws" THEN domLog ELSE domLog \o Tagged(f, r.ops)
          /\ IF how = "returns" /\ r.done
               THEN /\ call' = [call EXCEPT !.done = TRUE, !.message = r.message]
                    /\ pc' = "ret"
                    /\ UNCHANGED <<frames, envLeft, console>>
               ELSE /\ console' =
                         IF how = "returns"
                           THEN Log(console, <<T("Form not ready:"), T(r.message)>>)
                           ELSE Log(console, <<T("Frame evaluate error:"), T("e.message")>>)
                    /\ \E nd \in IF how = "throwsLate"
                                   THEN {frames[f].doc, EmptyDoc}
                                   ELSE {frames[f].doc} :
                       \E d \in DelayResults([frames EXCEPT ![f].doc = nd], envLeft) :
                         frames' = d.frames /\ envLeft' = d.envLeft
                    /\ \E more \in MoreTime(call.tries + 1, MaxTries) :
                         IF more
                           THEN /\ call' = [call EXCEPT !.tries = call.tries + 1]
                                /\ pc' = "waf"
                           ELSE /\ call' = [call EXCEPT !.tries = call.tries + 1,
                                                        !.message = "timeout"]
                                /\ pc' = "ret"
  /\ UNCHANGED <<cfgVars, credVars, fsVars, sessVars, browserVars, pageVars,
                 flagVars, pollCount, p3len, p3idx, tailVars, exitCode>>

\* mutant: pass 1 does not end the fill when it is done
Pass1ReturnNoBreak ==
  /\ pc = "ret" /\ call.caller = 1
  /\ loginFilled' = (loginFilled \/ call.done)
  /\ console' = IF call.done
                  THEN Log(console, <<T("Login filled in sessionserver iframe:"),
                                      T(call.message)>>)
                  ELSE console
  /\ pollCount' = pollCount + 1
  /\ \E d \in DelayResults(frames, envLeft) :
       frames' = d.frames /\ envLeft' = d.envLeft
  /\ \E more \in MoreTime(pollCount', MaxPoll) :
       pc' = IF more /\ ~call.done THEN "pass1" ELSE "pass2"
  /\ UNCHANGED <<cfgVars, credVars, fsVars, sessVars, browserVars, pageVars,
                 isLoggedInUrl, call, p3len, p3idx, attempts, domLog, tailVars,
                 exitCode>>

\* lines 222-228: pass 1 after waitAndFillFrame has returned
Pass1Return ==
  /\ pc = "ret" /\ call.caller = 1
  /\ IF call.done
       THEN /\ loginFilled' = TRUE
            /\ console' = Log(console, <<T("Login filled in sessionserver iframe:"),
                                         T(call.message)>>)
            /\ pc' = "after"
            /\ UNCHANGED <<frames, envLeft, pollCount>>
       ELSE /\ loginFilled' = loginFilled
            /\ console' = console
            /\ pollCount' = pollCount + 1
            /\ \E d \in DelayResults(frames, envLeft) :
                 frames' = d.frames /\ envLeft' = d.envLeft
            /\ \E more \in MoreTime(pollCount', MaxPoll) :
                 pc' = IF more THEN "pass1" ELSE "pass2"
  /\ UNCHANGED <<cfgVars, credVars, fsVars, sessVars, browserVars, pageVars,
                 isLoggedInUrl, call, p3len, p3idx, attempts, domLog, tailVars,
                 exitCode>>

\* lines 232-234: pass 2 calls waitAndFillFrame for the main frame
Pass2Start ==
  /\ pc = "pass2"
  /\ console' = Log(console, <<T("Trying main frame...")>>)
  /\ call' = Call(1, 2)
  /\ pc' = "waf"
  /\ UNCHANGED <<cfgVars, credVars, fsVars, sessVars, browserVars, pageVars,
                 flagVars, frames, envLeft, pollCount, p3len, p3idx, attempts,
                 domLog, tailVars, exitCode>>

\* lines 235-243: pass 2 after waitAndFillFrame has returned
Pass2Return ==
  /\ pc = "ret" /\ call.caller = 2
  /\ IF call.done
       THEN /\ loginFilled' = TRUE
            /\ console' = Log(console, <<T("Login filled in main frame:"), T(call.message)>>)
            /\ pc' = "after"
            /\ UNCHANGED <<p3len, p3idx>>
       ELSE /\ loginFilled' = loginFilled
            /\ console' = console
            /\ p3len' = Len(frames)
            /\ p3idx' = 1
            /\ pc' = "pass3"
  /\ UNCHANGED <<cfgVars, credVars, fsVars, sessVars, browserVars, pageVars,
                 isLoggedInUrl, frames, envLeft, pollCount, call, attempts,
                 domLog, tailVars, exitCode>>

\* line 245: the frames pass 3 leaves out
Pass3Skips(fr, i) == i = 1 \/ Includes(fr[i].url, SESSIONSERVER)

\* the first position from i on in the snapshot that pass 3 does not leave
\* out, p3len + 1 when there is none
RECURSIVE Pass3Target(_, _, _)
Pass3Target(fr, i, n) ==
  IF i > n THEN n + 1
  ELSE IF Pass3Skips(fr, i) THEN Pass3Target(fr, i + 1, n)
  ELSE i

\* lines 244-246: pass 3 goes on to the next frame of the snapshot that it
\* does not leave out, and calls waitAndFillFrame for it
Pass3Next ==
  /\ pc = "pass3"
  /\ p3idx' = Pass3Target(frames, p3idx, p3len)
  /\ IF p3idx' > p3len
       THEN /\ pc' = "after"
            /\ call' = call
       ELSE /\ call' = Call(p3idx', 3)
            /\ pc' = "waf"
  /\ UNCHANGED <<cfgVars, credVars, fsVars, sessVars, browserVars, pageVars,
                 flagVars, frames, envLeft, pollCount, p3len, attempts, domLog,
                 tailVars, outVars>>

\* lines 247-251: pass 3 after waitAndFillFrame has returned
Pass3Return ==
  /\ pc = "ret" /\ call.caller = 3
  /\ IF call.done
       THEN /\ loginFilled' = TRUE
            /\ console' = Log(console, <<T("Login filled in frame:"), T(call.message)>>)
            /\ pc' = "after"
            /\ p3idx' = p3idx
       ELSE /\ loginFilled' = loginFilled
            /\ console' = console
            /\ p3idx' = p3idx + 1
            /\ pc' = "pass3"
  /\ UNCHANGED <<cfgVars, credVars, fsVars, sessVars, browserVars, pageVars,
                 isLoggedInUrl, frames, envLeft, pollCount, call, p3len,
                 attempts, domLog, tailVars, exitCode>>

(***************************************************************************)
(* The runs checked.                                                       *)
(***************************************************************************)
\* a whole run of main()
Init ==
  /\ pc = "start"
  /\ InitRun
  /\ env \in [sfUsername : EnvUsers, sfPassword : EnvPasswords]
  /\ HEADED \in BOOLEAN
  /\ DEBUG \in BOOLEAN
  /\ stateFile \in RunFiles
  \* STATE_FILE lies in AUTH_DIR
  /\ dirsExist \in BOOLEAN
  /\ stateFile.exists => dirsExist
  /\ loginPage \in RunLayouts
  /\ envLeft = 0


(***************************************************************************)
(* After the fill: challenge probe, persist, cleanup (lines 256-294).      *)
(***************************************************************************)
Wait(what, result) == [wait |-> what, result |-> result]

\* the cookies the context holds once the login has gone through
SessionCookies == <<COOKIE_SID>>

\* mutant: a run that has nothing to save ends as a failure
AfterSaveAsFailure == "catch"

\* mutant: the browser is closed without the pause of the interactive mode
AfterSaveNoPause == "finally"

\* line 286: in interactive mode the run waits for Enter before it closes
AfterSave == IF HEADED THEN "closing" ELSE "finally"

\* lines 256-258 and 279-286
AfterFill ==
  /\ pc = "after"
  /\ IF loginFilled
       THEN \E loaded \in BOOLEAN :
              /\ challenge' = Append(challenge, Wait("load", loaded))
              /\ console' = Say(console,
                   <<T("Credentials entered from .env. Waiting for next page...")>>)
              \* line 258 has no catch: a timeout reaches line 289
              /\ pc' = IF loaded THEN "otp" ELSE "catch"
              /\ \E j \in {jar, SessionCookies} : jar' = IF loaded THEN j ELSE jar
       ELSE /\ console' =
                 IF ~isLoggedInUrl
                   THEN Say(IF DEBUG
                              THEN Say(console,
                                     <<T("[debug] Login form not detected after checking all frames. URL:"),
                                       V(pageUrl)>>)
                              ELSE console,
                            <<T("Already logged in (session from cookies).")>>)
                   ELSE console
            /\ pc' = AfterSave
            /\ UNCHANGED <<challenge, jar>>
  /\ UNCHANGED <<cfgVars, credVars, fsVars, sessVars, launched, context,
                 closeCount, pageVars, flagVars, fillVars, enters, exitCode>>

\* mutant: the session is saved without the confirmation of the user
AfterChallengeNoPause(otpVisible) == "marker"

\* mutant: a challenge that is visible makes the run wait for the user
AfterChallengeBlocking(otpVisible) ==
  IF HEADED \/ otpVisible THEN "confirm" ELSE "marker"

\* lines 263-276: what follows the challenge probe; otpVisible gates a message
\* only, the mode chooses the wait
AfterChallenge(otpVisible) == IF HEADED THEN "confirm" ELSE "marker"

\* lines 261-271: the challenge probe, and the prompt of the interactive mode
ChallengeProbe ==
  /\ pc = "otp"
  /\ \E otpVisible \in BOOLEAN :
       /\ challenge' = Append(challenge, Wait("otp", otpVisible))
       /\ console' =
            LET c1 == IF otpVisible
                        THEN Say(console,
                               <<T("OTP/verification detected. Enter the code in the browser.")>>)
                        ELSE console
            IN IF HEADED
                 THEN Say(Say(Say(c1, <<T("")>>),
                   <<T(">>> Complete OTP in the browser if asked. When you see the Salesforce dashboard, press Enter to SAVE session. <<<")>>),
                   <<T("")>>)
                 ELSE c1
       /\ pc' = AfterChallenge(otpVisible)
  /\ UNCHANGED <<cfgVars, credVars, fsVars, sessVars, browserVars, pageVars,
                 flagVars, fillVars, enters, exitCode>>

\* line 272 with 34-37: waitForEnter returns when a line arrives on stdin
ConfirmEnter ==
  /\ pc = "confirm"
  /\ enters' = enters + 1
  /\ challenge' = Append(challenge, Wait("enter", TRUE))
  /\ pc' = "persist"
  /\ UNCHANGED <<cfgVars, credVars, fsVars, sessVars, browserVars, pageVars,
                 flagVars, fillVars, outVars>>

\* lines 274-275: the bounded wait for a post-login marker
AwaitMarker ==
  /\ pc = "marker"
  /\ \E appeared \in BOOLEAN :
       challenge' = Append(challenge, Wait("marker", appeared))
  /\ pc' = "persist"
  /\ UNCHANGED <<cfgVars, credVars, fsVars, sessVars, browserVars, pageVars,
                 flagVars, fillVars, enters, outVars>>

\* mutant: the save keeps the cookies of the file it finds
PersistMerging ==
  /\ pc = "persist"
  /\ \E written \in BOOLEAN :
       /\ challenge' = Append(challenge, Wait("save", written))
       /\ IF written
            THEN /\ stateFile' = StorageState(loadStateFile(stateFile).value.cookies \o jar)
                 /\ fileWrites' = fileWrites + 1
                 /\ console' = Say(console, <<T("Session saved to"), T("STATE_FILE")>>)
                 /\ pc' = AfterSave
            ELSE /\ pc' = "catch"
                 /\ UNCHANGED <<stateFile, fileWrites, console>>
  /\ UNCHANGED <<cfgVars, credVars, dirsExist, mkdirs, fileReads, sessVars,
                 browserVars, pageVars, flagVars, fillVars, enters, exitCode>>

\* lines 277-278 and 286
Persist ==
  /\ pc = "persist"
  /\ \E written \in BOOLEAN :
       /\ challenge' = Append(challenge, Wait("save", written))
       /\ IF written
            THEN /\ stateFile' = StorageState(jar)
                 /\ fileWrites' = fileWrites + 1
                 /\ console' = Say(console, <<T("Session saved to"), T("STATE_FILE")>>)
                 /\ pc' = AfterSave
            ELSE /\ pc' = "catch"
                 /\ UNCHANGED <<stateFile, fileWrites, console>>
  /\ UNCHANGED <<cfgVars, credVars, dirsExist, mkdirs, fileReads, sessVars,
                 browserVars, pageVars, flagVars, fillVars, enters, exitCode>>

\* line 287 with 34-37: waitForEnter returns when a line arrives on stdin
CloseEnter ==
  /\ pc = "closing"
  /\ enters' = enters + 1
  /\ pc' = "finally"
  /\ UNCHANGED <<cfgVars, credVars, fsVars, sessVars, browserVars, pageVars,
                 flagVars, fillVars, challenge, outVars>>

\* lines 289-291
Catch ==
  /\ pc = "catch"
  /\ console' = Complain(console, <<T("err")>>)
  /\ exitCode' = 1
  /\ pc' = "finally"
  /\ UNCHANGED <<cfgVars, credVars, fsVars, sessVars, browserVars, pageVars,
                 flagVars, fillVars, tailVars>>

\* lines 292-294
Finally ==
  /\ pc = "finally"
  /\ context' = "closed"
  /\ closeCount' = closeCount + 1
  /\ pc' = "exited"
  /\ UNCHANGED <<cfgVars, credVars, fsVars, sessVars, launched, jar, pageVars,
                 flagVars, fillVars, tailVars, outVars>>


(***************************************************************************)
(* loadStateFile on its own, for every file of a bounded universe.         *)
(***************************************************************************)
LoadDomains ==
  { JUndef, JNull, JNum(7), JStr(<<>>),
    JStr(<<"a",".","l","i","g","h","t","n","i","n","g",".","f","o","r","c","e",".","c","o","m">>), JStr(<<"b",".","l","i","g","h","t","n","i","n","g",".","f","o","r","c","e",".","c","o","m">>),
    JStr(<<"t","e","s","t",".","s","a","l","e","s","f","o","r","c","e",".","c","o","m">>) }
LoadEntries == {JNull, JNum(5)} \cup { JCookie(d) : d \in LoadDomains }
LoadLists == UNION { [1..n -> LoadEntries] : n \in 0..MaxCookies }
LoadCookiesMembers ==
  { JUndef, JNull, JNum(0), JNum(5), JStr(<<>>), JStr(<<"a","b","c">>),
    JBool(FALSE), JBool(TRUE), JState(JUndef) }
    \cup { JArr(l) : l \in LoadLists }
LoadData ==
  { JNull, JNum(5), JStr(<<"a","b","c">>), JBool(TRUE), JArr(<<>>) }
    \cup { JState(c) : c \in LoadCookiesMembers }
LoadFiles == {NoFile, BadFile} \cup { JsonFile(d) : d \in LoadData }

\* lines 21-32: one call loadStateFile(STATE_FILE)
LoadStateFile ==
  /\ pc = "call"
  /\ fileReads' = fileReads + 1
  /\ IF loadStateFile(stateFile).threw
       THEN /\ pc' = "threw"
            /\ savedStateData' = savedStateData
       ELSE /\ pc' = "returned"
            /\ savedStateData' = <<loadStateFile(stateFile).value>>
  /\ UNCHANGED <<cfgVars, credVars, stateFile, dirsExist, mkdirs, fileWrites,
                 hasSavedState, browserVars, pageVars, flagVars, fillVars,
                 tailVars, outVars>>

InitLoad ==
  /\ pc = "call"
  /\ InitRun
  /\ env = [sfUsername |-> << <<"u","@","x">> >>, sfPassword |-> << <<"p","w","1">> >>]
  /\ HEADED = FALSE
  /\ DEBUG = FALSE
  /\ stateFile \in LoadFiles
  /\ dirsExist = stateFile.exists
  /\ loginPage = <<Frame(SALESFORCE_URL, LoginDoc)>>
  /\ envLeft = 0

NextLoad == LoadStateFile

SpecLoad == InitLoad /\ [][NextLoad]_vars

(***************************************************************************)
(* The fill on its own: a run without a session file that has reached line *)
(* 213 with the login page open.                                           *)
(***************************************************************************)
FILL_ENV == [sfUsername |-> << <<"u","@","x">> >>, sfPassword |-> << <<"p","w","1">> >>]

\* what lines 56-162 have printed in such a run
ConsoleAtFill ==
  LET c0 == Say({}, <<T("Using credentials from .env (username length:"),
                      N(Len(Trim(FILL_ENV.sfUsername[1]))), T(")")>>)
      c1 == Log(c0, <<T("Using browser channel:"), T(Channels[1])>>)
      c2 == Log(c1, <<T("URL after goto:"), V(SALESFORCE_URL)>>)
  IN Log(c2, <<T("URL after wait:"), V(SALESFORCE_URL),
               T("isLoggedInUrl:"), B(FALSE)>>)

\* the state of that run once the browser and the page are open and the login
\* page has been asked for (line 151), but for the URL, the console, the
\* frames and the position
AfterLaunch ==
  /\ env = FILL_ENV
  /\ HEADED = FALSE
  /\ DEBUG \in BOOLEAN
  /\ username = Trim(FILL_ENV.sfUsername[1])
  /\ password = Trim(FILL_ENV.sfPassword[1])
  /\ stateFile = NoFile /\ dirsExist = TRUE
  /\ mkdirs = 0 /\ fileReads = 0 /\ fileWrites = 0
  /\ hasSavedState = FALSE /\ savedStateData = <<>>
  /\ launched = <<Launch(Channels[1], TRUE)>>
  /\ context = "open" /\ closeCount = 0 /\ jar = <<>>
  /\ page = "open"
  /\ navLog = <<Nav(SALESFORCE_URL, 3, FALSE, [ok |-> TRUE, url |-> SALESFORCE_URL])>>
  /\ isLoggedInUrl = FALSE /\ loginFilled = FALSE
  /\ p3len = 0 /\ p3idx = 0 /\ attempts = {} /\ domLog = <<>>
  /\ challenge = <<>> /\ enters = 0
  /\ exitCode = 0

\* the state of that run at line 164: the page is at the entry URL
AtFill == AfterLaunch /\ pageUrl = SALESFORCE_URL

(***************************************************************************)
(* fillLoginInFrame on its own, for every document.                        *)
(***************************************************************************)
\* every combination of the elements the selectors of lines 170-186 look for
AllDocs ==
  { Doc(u, p, b, f) : u \in BOOLEAN, p \in BOOLEAN,
                      b \in SUBSET {1, 2, 3, 4}, f \in SUBSET {1, 2, 3} }

\* lines 166-195 with 202-204: one evaluation of the function in the frame,
\* which returns its result; a result that is done leaves waitAndFillFrame
Inject ==
  /\ pc = "inject"
  /\ LET f == call.frame
         r == fillLoginInFrame(frames[f].doc, username, password)
     IN /\ attempts' = attempts \cup {Attempt(call.caller, f, "returns")}
        /\ domLog' = domLog \o Tagged(f, r.ops)
        /\ call' = [call EXCEPT !.done = r.done, !.message = r.message]
        /\ console' = IF r.done THEN console
                      ELSE Log(console, <<T("Form not ready:"), T(r.message)>>)
        /\ pc' = IF r.done THEN "ret" ELSE "injected"
  /\ UNCHANGED <<cfgVars, credVars, fsVars, sessVars, browserVars, pageVars,
                 flagVars, frames, envLeft, pollCount, p3len, p3idx, tailVars,
                 exitCode>>

\* pass 2 at line 202, in its first iteration; no login iframe has appeared
InitInject ==
  /\ pc = "inject"
  /\ AtFill
  /\ loginPage \in { <<Frame(SALESFORCE_URL, d)>> : d \in AllDocs }
  /\ frames = loginPage
  /\ envLeft = 0
  /\ pollCount \in 1..MaxPoll
  /\ call = Call(1, 2)
  /\ console =
       Log(Say(ConsoleAtFill,
               <<T("Entering credentials in UI: username"), V(username),
                 T("password"), V(password)>>),
           <<T("Trying main frame...")>>)

NextInject ==
  \/ Inject
  \/ Pass2Return

SpecInject == InitInject /\ [][NextInject]_vars

(***************************************************************************)
(* The classification of stage 3 on its own, for a set of URLs.            *)
(***************************************************************************)
ClassifyHosts ==
  { <<"h","t","t","p","s",":","/","/","t","e","s","t",".","s","a","l","e","s","f","o","r","c","e",".","c","o","m">>, <<"h","t","t","p","s",":","/","/","a",".","m","y",".","s","a","l","e","s","f","o","r","c","e",".","c","o","m">>,
    <<"h","t","t","p","s",":","/","/","a",".","l","i","g","h","t","n","i","n","g",".","f","o","r","c","e",".","c","o","m">>, <<"h","t","t","p","s",":","/","/","e","x","a","m","p","l","e",".","c","o","m">> }
ClassifyPaths ==
  { <<"/">>, <<"/","l","o","g","i","n">>, <<"/","s","/","l","o","g","i","n","/">>, <<"/","h","o","m","e","/","h","o","m","e",".","j","s","p">>,
    <<"/","l","i","g","h","t","n","i","n","g","/","p","a","g","e","/","h","o","m","e">>, <<"/","s","e","c","u","r","/","f","r","o","n","t","d","o","o","r",".","j","s","p">>,
    <<"/","0","0","1","A","0","0","0","0","0","1","2","a","b","C","D">>, <<"/","o","n","e","/","o","n","e",".","a","p","p">> }
ClassifyQueries ==
  { <<>>, <<"?","s","t","a","r","t","U","R","L","=","/","l","i","g","h","t","n","i","n","g">>, <<"?","r","e","t","U","R","L","=","/","S","e","t","u","p">>, <<"?","c","=","/","s","e","c","u","r","/","f","r","o","n","t","d","o","o","r">> }

\* page.url() after the navigation of line 151 and its redirections
ClassifyUrls ==
  { h \o p \o q : h \in ClassifyHosts, p \in ClassifyPaths, q \in ClassifyQueries }

\* lines 154-157
Classify ==
  /\ pc = "classify"
  /\ isLoggedInUrl' = IsLoggedInBroad(pageUrl)
  /\ console' = Log(console, <<T("URL after wait:"), V(pageUrl),
                               T("isLoggedInUrl:"), B(isLoggedInUrl')>>)
  /\ pc' = "classified"
  /\ UNCHANGED <<cfgVars, credVars, fsVars, sessVars, browserVars, pageVars,
                 loginFilled, fillVars, tailVars, exitCode>>

\* a run without a session file at line 154
InitClassify ==
  /\ pc = "classify"
  /\ AfterLaunch
  /\ pageUrl \in ClassifyUrls
  /\ loginPage \in RunLayouts
  /\ frames = <<>>
  /\ envLeft = 0
  /\ pollCount = 0
  /\ call = NoCall
  /\ console =
       Log(Log(Say({}, <<T("Using credentials from .env (username length:"),
                         N(Len(username)), T(")")>>),
               <<T("Using browser channel:"), T(Channels[1])>>),
           <<T("URL after goto:"), V(pageUrl)>>)

NextClassify == Classify

SpecClassify == InitClassify /\ [][NextClassify]_vars

(***************************************************************************)
(* The three passes on their own, for every page layout, with a page that  *)
(* may change while the fill waits.                                        *)
(***************************************************************************)
\* a run without a session file at line 164
InitFill ==
  /\ pc = "fill"
  /\ AtFill
  /\ loginPage \in PageLayouts
  /\ frames = <<>>
  /\ envLeft = MaxPageChanges
  /\ pollCount = 0
  /\ call = NoCall
  /\ console = ConsoleAtFill

NextFill ==
  \/ StartFill
  \/ Pass1Poll
  \/ Evaluate
  \/ Pass1Return
  \/ Pass2Start
  \/ Pass2Return
  \/ Pass3Next
  \/ Pass3Return

SpecFill == InitFill /\ [][NextFill]_vars
Next ==
  \/ ReadCredentials
  \/ EnsureDirs
  \/ LaunchChannel
  \/ LaunchBundled
  \/ LoadSavedState
  \/ GetPage
  \/ ProbeDashboard
  \/ ProbeGeneric
  \/ ProbeLogin
  \/ StartFill
  \/ Pass1Poll
  \/ Evaluate
  \/ Pass1Return
  \/ Pass2Start
  \/ Pass2Return
  \/ Pass3Next
  \/ Pass3Return
  \/ AfterFill
  \/ ChallengeProbe
  \/ ConfirmEnter
  \/ AwaitMarker
  \/ Persist
  \/ CloseEnter
  \/ Catch
  \/ Finally

Spec == Init /\ [][Next]_vars

\* the steps the program takes by itself: all but the two that read a line
\* from stdin (lines 272 and 287), which wait for the user
Progress ==
  \/ ReadCredentials
  \/ EnsureDirs
  \/ LaunchChannel
  \/ LaunchBundled
  \/ LoadSavedState
  \/ GetPage
  \/ ProbeDashboard
  \/ ProbeGeneric
  \/ ProbeLogin
  \/ StartFill
  \/ Pass1Poll
  \/ Evaluate
  \/ Pass1Return
  \/ Pass2Start
  \/ Pass2Return
  \/ Pass3Next
  \/ Pass3Return
  \/ AfterFill
  \/ ChallengeProbe
  \/ AwaitMarker
  \/ Persist
  \/ Catch
  \/ Finally

\* a whole run in which every call with a timeout, every delay and every
\* other step of the program comes to its end; nothing is assumed of stdin
SpecLive == Init /\ [][Next]_vars /\ WF_vars(Progress)

(***************************************************************************)
(* Properties.                                                             *)
(***************************************************************************)
Last(s) == s[Len(s)]

\* C1: once the session probe has classified the page as authenticated (at
\* any stage), no field injection is attempted in any frame, the session file
\* is not written, and the run goes on to its end without an error.
C1_AuthenticatedSkipsLogin ==
  isLoggedInUrl =>
    /\ attempts = {}
    /\ domLog = <<>>
    /\ ~loginFilled
    /\ fileWrites = 0
    /\ pc \in {"after", "closing", "finally", "exited"}
    /\ exitCode = 0

\* a run authenticated by stage 1 has ended
C1_Witness ==
  /\ pc = "exited"
  /\ isLoggedInUrl
  /\ Len(navLog) = 1
  /\ navLog[1].stage = 1

\* C2: a run that has opened a browser context ends with that context closed
\* exactly once, whichever step failed after the launch.
C2_ContextClosedOnce ==
  (pc = "exited" /\ launched # <<>> /\ Last(launched).ok) =>
    (context = "closed" /\ closeCount = 1)

\* C3: the value of the password is in no message printed, in normal and in
\* debug mode.
C3_PasswordNeverPrinted ==
  password # <<>> =>
    \A m \in console :
      \A i \in 1..Len(m.args) :
        m.args[i].k = "value" => ~Includes(m.args[i].v, password)

\* a credential variable that is not set, or holds white space only
Blank(x) == x = <<>> \/ \A i \in 1..Len(x[1]) : x[1][i] \in WhiteSpace

\* C4: with the username or the password empty after trimming, the run ends
\* at once with exit code 1: no directory is created, no engine launched, the
\* session file neither read nor written, no navigation made.
C4_MissingCredentialsEndTheRun ==
  (Blank(env.sfUsername) \/ Blank(env.sfPassword)) =>
    /\ pc \in {"start", "exited"}
    /\ pc = "exited" => exitCode = 1
    /\ mkdirs = 0
    /\ launched = <<>>
    /\ context = "none"
    /\ fileReads = 0
    /\ fileWrites = 0
    /\ navLog = <<>>

\* the run has ended on a password of white space, the username being given
C4_Witness ==
  /\ pc = "exited"
  /\ ~Blank(env.sfUsername)
  /\ env.sfPassword # <<>> /\ env.sfPassword[1] # <<>> /\ Blank(env.sfPassword)
  /\ exitCode = 1

Engines == Channels \o <<BUNDLED>>
AllLaunchesFailed ==
  Len(launched) = Len(Engines) /\ \A i \in 1..Len(launched) : ~launched[i].ok

\* C5: the engines are tried in the order chrome, msedge, bundled; nothing is
\* tried after an engine has launched; the failure of a named engine is
\* swallowed and the next one tried; the launch is fatal only when all three
\* have failed, and then nothing is navigated, filled or written.
C5_OrderedLaunch ==
  /\ Len(launched) <= Len(Engines)
  /\ \A i \in 1..Len(launched) :
       /\ launched[i].engine = Engines[i]
       /\ launched[i].ok => i = Len(launched)
  /\ (context # "none") <=> (launched # <<>> /\ Last(launched).ok)
  /\ (launched # <<>> /\ ~Last(launched).ok /\ ~AllLaunchesFailed) =>
       pc \in {"launch", "bundled"}
  /\ (pc = "exited" /\ launched # <<>> /\ context = "none") => AllLaunchesFailed
  /\ AllLaunchesFailed =>
       /\ pc = "exited"
       /\ exitCode # 0
       /\ navLog = <<>>
       /\ attempts = {}
       /\ domLog = <<>>
       /\ fileWrites = 0

\* all three engines have failed
C5_Witness == AllLaunchesFailed /\ pc = "exited"

\* the cookies member of the file, when its top level is an object holding a
\* list
HasCookieList(file) ==
  file.exists /\ file.json /\ file.data.t = "state" /\ file.data.v.t = "array"
CookieList(file) == file.data.v.v

IsLightningCookie(c) ==
  c.t = "cookie" /\ c.v.t = "string" /\ Includes(c.v.v, LIGHTNING_DOMAIN)

\* the list has a null entry
HasNullEntry(list) == \E i \in 1..Len(list) : list[i].t = "null"

\* the list has a null entry with no cookie of a Lightning domain before it
NullEntryReached(list) ==
  \E i \in 1..Len(list) :
    /\ list[i].t = "null"
    /\ \A j \in 1..(i - 1) : ~IsLightningCookie(list[j])

\* no file, no JSON, a top level that is null or no object, cookies that are
\* no list
BadShape(file) ==
  \/ ~file.exists
  \/ ~file.json
  \/ file.data.t # "state"
  \/ file.data.v.t # "array"

C7_EmptyFileLikeNoFile ==
  (hasSavedState /\ savedStateData = <<EmptyArtifact>>) =>
    \A i \in 1..Len(navLog) : navLog[i].stage = 3

\* the entries of the list are cookies whose domain is a string or missing
IsCookieListOnly(list) ==
  \A i \in 1..Len(list) :
    list[i].t = "cookie" /\ list[i].v.t \in {"undefined", "null", "string"}

HasDomain(c) == c.v.t = "string" /\ c.v.v # <<>>

\* https://<domain> of the first cookie of a Lightning domain, or none
FirstLightningEndpoint(list) ==
  LET m == { i \in 1..Len(list) : IsLightningCookie(list[i]) }
  IN IF m = {} THEN NoUrl ELSE SomeUrl(HTTPS \o list[Min(m)].v.v)

\* C8: for every list of cookies the derived endpoint is https://<domain> of
\* the first cookie, in list order, whose domain contains
\* lightning.force.com, and none when there is no such cookie; cookies with
\* no domain are skipped: without them the endpoint is the same.
C8_EndpointOfFirstLightningCookie ==
  (pc = "returned" /\ HasCookieList(stateFile)
     /\ IsCookieListOnly(CookieList(stateFile))) =>
    LET list == CookieList(stateFile)
        rest == SelectSeq(list, HasDomain)
    IN /\ savedStateData[1].cookies = list
       /\ savedStateData[1].lightningBaseUrl = FirstLightningEndpoint(list)
       /\ list = <<>> => savedStateData[1].lightningBaseUrl = NoUrl
       /\ savedStateData[1].lightningBaseUrl =
            loadStateFile(StorageState(rest)).value.lightningBaseUrl

\* of two cookies of different Lightning domains the first gives the endpoint
C8_Witness ==
  /\ pc = "returned"
  /\ HasCookieList(stateFile)
  /\ Len(CookieList(stateFile)) = 2
  /\ IsLightningCookie(CookieList(stateFile)[1])
  /\ IsLightningCookie(CookieList(stateFile)[2])
  /\ CookieList(stateFile)[1] # CookieList(stateFile)[2]
  /\ savedStateData[1].lightningBaseUrl = SomeUrl(HTTPS \o CookieList(stateFile)[1].v.v)

\* C9: a navigation that fails during the session probe is swallowed: the
\* flow goes on, and the failure does not reach the error handler that sets
\* the exit code and skips the fill.
C9_FailedNavigationSwallowed ==
  (navLog # <<>> /\ ~Last(navLog).ok) => pc # "catch"

\* C10: a run in which a fill pass has reported done ends with the session
\* file written exactly once, whether or not the wait for the next page load
\* succeeded and whether or not a marker appeared, unless the write itself
\* has failed.
C10_FilledRunPersistsOnce ==
  (/\ pc = "exited"
   /\ loginFilled
   /\ \A i \in 1..Len(challenge) : challenge[i] # Wait("save", FALSE)) =>
    fileWrites = 1

\* the kinds of the waits made so far, in order
WaitKinds == [i \in 1..Len(challenge) |-> challenge[i].wait]

\* C11: in interactive mode the session file is written only after Enter has
\* been received following the fill: the step that writes the file starts
\* from a state whose last wait is the confirmation, and while no line has
\* been read the file is as the run found it.
C11_WriteAfterConfirmation ==
  [][ HEADED =>
        /\ (fileWrites' # fileWrites \/ stateFile' # stateFile) =>
             /\ loginFilled
             /\ enters >= 1
             /\ challenge # <<>>
             /\ Last(challenge) = Wait("enter", TRUE)
        /\ enters' = 0 => (fileWrites' = 0 /\ stateFile' = stateFile) ]_vars

\* an interactive run has saved the session after one confirmation
C11_Witness ==
  /\ HEADED
  /\ fileWrites = 1
  /\ enters >= 1
  /\ \E i \in 1..Len(challenge) : challenge[i] = Wait("enter", TRUE)
  /\ pc = "exited"

\* pass 3 has gone through its whole snapshot of the frames
Pass3Over == p3idx >= 1 /\ p3idx > p3len

\* C12: when the probe has said unauthenticated and the three passes have all
\* reported not done, the run is no failure: the exit code is 0, the session
\* file is not written, and the run ends with the context closed once.
C12_FormNotFoundIsNoFailure ==
  (~isLoggedInUrl /\ ~loginFilled /\ Pass3Over) =>
    /\ pc \in {"pass3", "after", "closing", "finally", "exited"}
    /\ exitCode = 0
    /\ fileWrites = 0
    /\ pc = "exited" => (context = "closed" /\ closeCount = 1)

\* a run that found no form has ended
C12_Witness ==
  /\ pc = "exited"
  /\ ~isLoggedInUrl
  /\ ~loginFilled
  /\ Pass3Over
  /\ \E a \in attempts : a.pass = 2

\* the clicks on a submit control made so far, over all frames and passes
Clicks == { i \in 1..Len(domLog) : domLog[i].o.op = "click" }

\* C13: whenever the fill has reported done for a document with a username
\* field, a password field and a submit control, the submit control has been
\* clicked exactly once over the whole fill, the iterations whose evaluation
\* raised an error after the injection had run included.
C13_SubmitExactlyOnce ==
  (/\ loginFilled
   /\ frames[call.frame].doc.u
   /\ frames[call.frame].doc.p
   /\ frames[call.frame].doc.btns # {}) =>
    Cardinality(Clicks) = 1

\* the document of the frame the call in progress is about
CallDoc == frames[call.frame].doc

\* C14: for a document without the username-like or the password-like input,
\* one injection reports not done with the reason that names the missing
\* field, 'no username field' when the username field is missing and 'no
\* password field' when only the password field is, and does nothing to the
\* document: no value set, no notification, no click, no submission.
C14_MissingFieldLeavesDocument ==
  (pc # "inject" /\ (~CallDoc.u \/ ~CallDoc.p)) =>
    /\ pc = "injected"
    /\ ~call.done
    /\ ~CallDoc.u => call.message = "no username field"
    /\ (CallDoc.u /\ ~CallDoc.p) => call.message = "no password field"
    /\ domLog = <<>>
    /\ frames = loginPage
    /\ ~loginFilled

\* a document with a username field and a button, and no password field
C14_Witness ==
  /\ pc = "injected"
  /\ CallDoc.u
  /\ ~CallDoc.p
  /\ CallDoc.btns # {}
  /\ call.message = "no password field"

\* C15 as stated: the confirmation before the save is the only wait without
\* bound: an unattended run ends, and an interactive run that was classified
\* as authenticated or that found no form ends without input of the user.
C15_OnlyTheConfirmationWaits ==
  /\ (~HEADED) ~> (pc = "exited")
  /\ (HEADED /\ ~loginFilled /\ pc = "after") ~> (pc = "exited")

\* C15 as amended: the waits without bound are the two pauses of the
\* interactive mode, the confirmation before the save and the pause before
\* the browser is closed.  An unattended run ends without any input and never
\* pauses; an interactive run ends or comes to one of the two pauses; the
\* confirmation is asked only after a fill that reported done; and every
\* interactive run that ends without an error, the runs classified as
\* authenticated and those that found no form included, has read a line.
C15_TwoPausesAreTheOnlyWaits ==
  /\ (~HEADED) ~> (pc = "exited")
  /\ HEADED ~> (pc \in {"exited", "confirm", "closing"})
  /\ [](pc \in {"confirm", "closing"} => HEADED)
  /\ [](~HEADED => enters = 0)
  /\ [](pc = "confirm" => loginFilled)
  /\ []((HEADED /\ pc = "exited" /\ exitCode = 0) => enters >= 1)

\* an interactive run that was classified as authenticated waits for Enter
\* before it closes the browser
C15_Witness ==
  /\ HEADED
  /\ pc = "closing"
  /\ isLoggedInUrl
  /\ ~loginFilled
  /\ enters = 0

\* C16: the classification of stage 3 never says authenticated for a URL that
\* is the entry URL or that contains /login, whatever else the URL contains.
C16_LoginUrlNeverAuthenticated ==
  (pc = "classified"
     /\ (pageUrl = SALESFORCE_URL \/ Includes(pageUrl, <<"/", "l", "o", "g", "i", "n">>))) =>
    ~isLoggedInUrl

\* the stages of the navigations made so far, in order
Stages == [i \in 1..Len(navLog) |-> navLog[i].stage]

\* the run found a session file with cookies in it
ArtifactExisted ==
  hasSavedState /\ savedStateData # <<>> /\ savedStateData[1].cookies # <<>>

\* the fill block of line 164 has been entered
FillEntered ==
  pc \in {"fill", "pass1", "waf", "ret", "pass2", "pass3"} \/ frames # <<>>

\* C17 as stated: in a run where a session artifact existed only the strict
\* classification decides: the navigations are those of stages 1 and 2, a
\* stage 1 that was inconclusive is followed by stage 2, and the navigation
\* and the broad classification of stage 3 are never applied.
C17_StrictOnlyWithArtifact ==
  ArtifactExisted =>
    /\ \A i \in 1..Len(navLog) : navLog[i].stage \in {1, 2}
    /\ (FillEntered /\ navLog # <<>> /\ navLog[1].stage = 1) =>
         \E i \in 1..Len(navLog) : navLog[i].stage = 2

\* C17 as amended: in a run where a session file existed the strict
\* classification is applied once, at stage 1 when the file gave an endpoint
\* and at stage 2 (the entry URL) when it did not, never at both; when it is
\* inconclusive the run goes on to stage 3 as a run without a file does, and
\* the fill is entered only after the navigation and the broad
\* classification of stage 3.  A run without a file makes stage 3 only.
C17_StrictOnceThenBroad ==
  /\ Stages \in { <<>>, <<1>>, <<2>>, <<3>>, <<1, 3>>, <<2, 3>>, <<3, 3>>,
                  <<1, 3, 3>>, <<2, 3, 3>> }
  /\ \A i \in 1..Len(navLog) :
       /\ navLog[i].stage \in {1, 2} =>
            /\ hasSavedState
            /\ navLog[i].stage = 1 <=> HasDashboardUrl
       /\ navLog[i].stage = 1 =>
            navLog[i].url = savedStateData[1].lightningBaseUrl[1] \o HOME_PATH
       /\ navLog[i].stage = 2 => navLog[i].url = SALESFORCE_URL
  /\ (hasSavedState /\ navLog # <<>>) => navLog[1].stage \in {1, 2}
  /\ ~hasSavedState => \A i \in 1..Len(navLog) : navLog[i].stage = 3
  /\ pc = "probe3" => ~isLoggedInUrl
  /\ FillEntered =>
       \E i \in 1..Len(navLog) :
         navLog[i].stage = 3 /\ navLog[i].url = SALESFORCE_URL /\ navLog[i].ok

\* a saved session with an endpoint did not authenticate at stage 1, and the
\* run has entered the fill after stage 3
C17_Witness ==
  /\ ArtifactExisted
  /\ Stages = <<1, 3>>
  /\ pc = "fill"

\* the passes that have made an injection attempt
PassesTried == { a.pass : a \in attempts }

\* pass k is running: in its own code or in the waitAndFillFrame it called
InPass(k, own) == pc = own \/ (pc \in {"waf", "ret"} /\ call.caller = k)

\* C18: the passes run in the order login iframe, main document, other
\* frames, each on its own kind of frame; the fill stops at the first pass
\* that reports done, so that no injection follows in a later pass or a
\* later frame of pass 3; and the fill ends not done exactly when the three
\* passes have all reported not done, pass 1 without a login iframe included.
C18_PassesInOrder ==
  /\ pc = "fill" => attempts = {}
  /\ \A a \in attempts :
       /\ a.pass = 1 => Includes(frames[a.frame].url, SESSIONSERVER)
       /\ a.pass = 2 => a.frame = 1
       /\ a.pass = 3 =>
            (a.frame # 1 /\ ~Includes(frames[a.frame].url, SESSIONSERVER))
  /\ InPass(1, "pass1") => (PassesTried \subseteq {1} /\ ~loginFilled)
  /\ InPass(2, "pass2") => (PassesTried \subseteq {1, 2} /\ ~loginFilled)
  /\ InPass(3, "pass3") => (2 \in PassesTried /\ ~loginFilled)
  /\ loginFilled =>
       /\ pc = "after"
       /\ call.done
       /\ \A a \in attempts :
            /\ a.pass <= call.caller
            /\ a.pass = 3 => a.frame <= call.frame
  /\ pc = "after" =>
       /\ loginFilled <=> call.done
       /\ ~loginFilled =>
            /\ 2 \in PassesTried
            /\ Pass3Over
            /\ \A i \in 2..p3len :
                 ~Includes(frames[i].url, SESSIONSERVER) =>
                   \E a \in attempts : a.pass = 3 /\ a.frame = i

\* passes 1 and 2 have reported not done and pass 3 has found the form in the
\* third frame
C18_Witness ==
  /\ loginFilled
  /\ call.caller = 3
  /\ call.frame = 3
  /\ {1, 2, 3} \subseteq PassesTried

\* the waits of a run after a fill that reported done, as the mode fixes them
ModeWaits ==
  IF HEADED THEN <<"load", "otp", "enter", "save">>
            ELSE <<"load", "otp", "marker", "save">>

IsPrefix(s, t) == Len(s) <= Len(t) /\ SubSeq(t, 1, Len(s)) = s

ChallengeSeen == \E i \in 1..Len(challenge) : challenge[i] = Wait("otp", TRUE)

OTP_MESSAGE ==
  [stream |-> "stdout",
   args |-> <<T("OTP/verification detected. Enter the code in the browser.")>>]

\* C19: the challenge probe never raises and its result gates a message
\* only: the step of the probe changes nothing but the console and the record
\* of the waits, and goes on to the wait the mode fixes; the waits of a run
\* are, in order, those the mode fixes, whatever the probe found; the file is
\* written once, with the cookies of the context, exactly when the save
\* succeeded; and the message is printed exactly when a challenge was seen.
C19_ChallengeGatesMessageOnly ==
  /\ [][ pc = "otp" =>
           /\ pc' = IF HEADED THEN "confirm" ELSE "marker"
           /\ WaitKinds' = Append(WaitKinds, "otp")
           /\ UNCHANGED <<cfgVars, credVars, fsVars, sessVars, browserVars,
                          pageVars, flagVars, fillVars, enters, exitCode>> ]_vars
  /\ [](IsPrefix(WaitKinds, ModeWaits))
  /\ []((challenge # <<>> /\ Last(challenge).wait = "otp") =>
          (pc \in {"confirm", "marker"} /\ exitCode = 0))
  /\ [](fileWrites = (IF \E i \in 1..Len(challenge) : challenge[i] = Wait("save", TRUE)
                        THEN 1 ELSE 0))
  /\ [](fileWrites = 1 => stateFile = StorageState(jar))
  /\ [](OTP_MESSAGE \in console <=> ChallengeSeen)

\* an unattended run in which a challenge was seen has saved the session
C19_Witness ==
  /\ pc = "exited"
  /\ ~HEADED
  /\ ChallengeSeen
  /\ fileWrites = 1
  /\ exitCode = 0

IsSubmissionEntry(e) == IsSubmission(e.o)

\* the submissions made so far, in order
Submissions == SelectSeq(domLog, IsSubmissionEntry)

\* the operation is the choice of the first existing element of a priority
\* list: its position k exists, and no position before k does
FirstOf(k, existing) == k \in existing /\ \A j \in existing : k <= j

\* C20: with both fields present one injection sets both fields, reports
\* done, and makes exactly one submission by priority: a click on the first
\* existing submit control; only without any control the native submit of the
\* first existing form; only without any form no submission at all, reported
\* as 'filled, no button'; and the flow takes every one of the three as a
\* fill that is done.
C20_OneSubmissionByPriority ==
  (pc # "inject" /\ CallDoc.u /\ CallDoc.p) =>
    /\ call.done
    /\ pc \in {"ret", "after"}
    /\ pc = "after" => loginFilled
    /\ \E i \in 1..Len(domLog) :
         domLog[i].o.op = "value" /\ domLog[i].o.target = "u"
           /\ domLog[i].o.val = username
    /\ \E i \in 1..Len(domLog) :
         domLog[i].o.op = "value" /\ domLog[i].o.target = "p"
           /\ domLog[i].o.val = password
    /\ Len(Submissions) <= 1
    /\ Submissions # <<>> => Last(domLog) = Submissions[1]
    /\ CallDoc.btns # {} =>
         /\ Len(Submissions) = 1
         /\ Submissions[1].o.op = "click"
         /\ Submissions[1].o.target = "btn"
         /\ FirstOf(Submissions[1].o.k, CallDoc.btns)
         /\ call.message = "submitted"
    /\ (CallDoc.btns = {} /\ CallDoc.forms # {}) =>
         /\ Len(Submissions) = 1
         /\ Submissions[1].o.op = "submit"
         /\ Submissions[1].o.target = "form"
         /\ FirstOf(Submissions[1].o.k, CallDoc.forms)
         /\ call.message = "form submitted"
    /\ (CallDoc.btns = {} /\ CallDoc.forms = {}) =>
         /\ Submissions = <<>>
         /\ call.message = "filled, no button"

\* both fields, no control and no form: nothing is submitted and the flow
\* has taken the fill as done
C20_Witness ==
  /\ pc = "after"
  /\ CallDoc.u /\ CallDoc.p
  /\ CallDoc.btns = {} /\ CallDoc.forms = {}
  /\ Submissions = <<>>
  /\ loginFilled

\* the frames in which pass 1 has made an injection attempt
TriedInPass1 == { a.frame : a \in attempts \cap [pass : {1}, frame : 1..Len(frames), how : {"returns", "throws", "throwsLate"}] }

\* C21: when pass 3 has run to its end without a done, an injection has been
\* attempted in every frame of the page that was there when pass 3 started,
\* but the main frame and the frames pass 1 tried: a frame that pass 1 did
\* not try, even one whose URL has the marker of the login iframe, is not
\* left out.
C21_Pass3TriesEveryUntriedFrame ==
  (pc = "after" /\ ~loginFilled /\ Pass3Over) =>
    \A i \in 2..p3len :
      i \notin TriedInPass1 => \E a \in attempts : a.pass = 3 /\ a.frame = i

Range(s) == { s[i] : i \in 1..Len(s) }

\* the cookies of the session file the run found
OldCookies ==
  IF savedStateData = <<>> THEN {} ELSE Range(savedStateData[1].cookies)

IsOpAt(i, f, op, t) ==
  /\ domLog[i].frame = f
  /\ domLog[i].o.op = op
  /\ domLog[i].o.target = t

\* the last position before s of the log that is operation op on field t in
\* frame f, 0 when there is none
LastOpBefore(s, f, op, t) ==
  LET P == { i \in 1..(s - 1) : IsOpAt(i, f, op, t) }
  IN IF P = {} THEN 0 ELSE CHOOSE i \in P : \A m \in P : m <= i

\* before position s of the log, field t of frame f has been given the value
\* val and then an input and then a change notification, and has not been
\* assigned again since
SetAndNotifiedBefore(s, f, t, val) ==
  LET v == LastOpBefore(s, f, "value", t)
      c == LastOpBefore(s, f, "change", t)
  IN /\ v > 0
     /\ domLog[v].o.val = val
     /\ \E j \in (v + 1)..(c - 1) : IsOpAt(j, f, "input", t)

\* C23: every submission, a click of the submit control or the submit of the
\* form, comes after the username field and the password field of its
\* document have been given the credentials and an input and a change
\* notification each, with no later assignment left without them; and an
\* injection that has reported done has set and notified both fields.
C23_NotifiedBeforeSubmission ==
  /\ \A s \in 1..Len(domLog) :
       IsSubmissionEntry(domLog[s]) =>
         /\ SetAndNotifiedBefore(s, domLog[s].frame, "u", username)
         /\ SetAndNotifiedBefore(s, domLog[s].frame, "p", password)
  /\ call.done =>
       /\ SetAndNotifiedBefore(Len(domLog) + 1, call.frame, "u", username)
       /\ SetAndNotifiedBefore(Len(domLog) + 1, call.frame, "p", password)

\* an injection has reported done after it clicked the submit control
C23_Witness ==
  /\ pc = "after"
  /\ loginFilled
  /\ call.done
  /\ Submissions # <<>>
  /\ Last(domLog).o.op = "click"

=============================================================================
